---- MODULE Spec2Model ----
(***************************************************************************)
(* Model of the quiz CLI: the Quiz session object (src/quiz.js) and the    *)
(* line-based selection prompt it reads answers from (src/input.js).       *)
(*                                                                         *)
(* Spec        one Quiz object, built by the constructor over any list of  *)
(*             questions, whose operations are invoked one after another.  *)
(* SpecSelect  one call of select() over any option list, fed raw lines.   *)
(* SpecResults showResults on a finished session of any length and score.  *)
(* SpecConstruct  new Quiz(...) over any list of questions, then getters.  *)
(* SpecMain    the application loop of index.js over a loaded bank.        *)
(* SpecMainFair   SpecMain with a user who answers every prompt, sooner or *)
(*             later with a valid choice, and sooner or later declines to  *)
(*             play again.                                                 *)
(***************************************************************************)
EXTENDS Integers, Sequences, FiniteSets, TLC

VARIABLES
    questions,      \* this.questions: the shuffled question list
    categoryName,   \* this.categoryName
    currentIndex,   \* this.currentIndex (0-based)
    score,          \* this.score
    answers,        \* this.answers: the answer log
    pc,             \* askQuestion: "idle", or "select" while awaiting select()
    q,              \* askQuestion: the local const q captured before the await
    ret,            \* result of the most recent call on the session
    selPc,          \* select(): "none", "prompt" (awaiting a line) or "returned"
    selOptions,     \* select(): the options argument
    selLine,        \* select(): the raw line most recently read
    selReprompts,   \* select(): number of "Please enter a number" messages
    selResult,      \* select(): the returned {index, value}
    sessions,       \* Quiz objects constructed in the current playthrough
    outstanding,    \* prompts issued on the readline interface and not answered
    callerQuestions,\* the array handed to the constructor, as its caller sees it
    mainPc,         \* main: where it stands ("none" when main is not running)
    data,           \* main: the loaded categories, in Object.keys order
    categoryId,     \* main: position in data of the category selected, 0 if none
    plays,          \* main: playthroughs started
    shown           \* main: showResults calls in the current playthrough

quizVars == <<questions, categoryName, currentIndex, score, answers>>
askVars  == <<pc, q, ret>>
selVars  == <<selPc, selOptions, selLine, selReprompts, selResult>>
mainVars == <<mainPc, data, categoryId, plays, shown>>
vars     == <<questions, categoryName, currentIndex, score, answers,
              pc, q, ret, selPc, selOptions, selLine, selReprompts, selResult,
              sessions, outstanding, callerQuestions,
              mainPc, data, categoryId, plays, shown>>

----------------------------------------------------------------------------
(* Bounds *)

MaxQuestions == 3   \* longest question list handed to the constructor
MaxLineLen   == 2   \* longest raw input line (besides the sample line "abc")
MaxReprompts == 2   \* re-prompts followed within one select() call
MaxOptions   == 3   \* longest option list handed to select() on its own
MaxTotal     == 40  \* longest finished session whose results are shown
MaxSessions  == 2   \* Quiz objects constructed over one array
MaxPlaythroughs == 2  \* playthroughs main runs before "play again" is declined

----------------------------------------------------------------------------
(* JavaScript values *)

\* A JS number that is an integer, or NaN, or +Infinity.
Num(n)   == [kind |-> "int", v |-> n]
NaN      == [kind |-> "nan", v |-> 0]
Infinity == [kind |-> "inf", v |-> 0]

Null      == [isNull |-> TRUE]
Undefined == [isUndefined |-> TRUE]

\* x === n and x >= n for a JS number x and an integer n: false for NaN.
JsStrictEq(x, n) == x.kind = "int" /\ x.v = n
JsGe(x, n)       == x.kind = "inf" \/ (x.kind = "int" /\ x.v >= n)
JsLt(x, n)       == x.kind = "int" /\ x.v < n

\* x - n: NaN and Infinity are absorbing.
JsMinus(x, n) == IF x.kind = "int" THEN Num(x.v - n) ELSE x

\* options[i] for a JS array of strings: undefined outside 0..length-1,
\* written "undefined" as the console prints it.
OptionAt(options, i) ==
    IF i >= 0 /\ i < Len(options) THEN options[i + 1] ELSE "undefined"

\* IEEE 754 double precision, for positive values: sig is the 53-bit
\* significand, most significant bit first (sig[1] = 1), and exp the binary
\* exponent of that leading bit. Long arithmetic runs on limbs of LimbBits
\* bits, most significant first.
SigBits  == 53
LimbBits == 13
LimbBase == 2 ^ LimbBits
SigLimbs == (SigBits - 1) \div LimbBits

\* The bits of the natural number n, most significant first (<<>> for 0).
RECURSIVE NatBits(_)
NatBits(n) == IF n = 0 THEN <<>> ELSE Append(NatBits(n \div 2), n % 2)

\* The natural number written by a short sequence of bits.
RECURSIVE BitsNat(_)
BitsNat(bits) ==
    IF bits = <<>> THEN 0
    ELSE 2 * BitsNat(SubSeq(bits, 1, Len(bits) - 1)) + bits[Len(bits)]

\* Limbs written out as bits, and bits (a multiple of LimbBits) as limbs.
LimbsToBits(limbs) ==
    [i \in 1..(LimbBits * Len(limbs)) |->
        (limbs[((i - 1) \div LimbBits) + 1]
            \div (2 ^ (LimbBits - 1 - ((i - 1) % LimbBits)))) % 2]

BitsToLimbs(bits) ==
    [j \in 1..(Len(bits) \div LimbBits) |->
        BitsNat(SubSeq(bits, (j - 1) * LimbBits + 1, j * LimbBits))]

\* bits + 1, as a sequence one bit longer when every bit was 1.
IncBits(bits) ==
    LET zeros == {i \in 1..Len(bits) : bits[i] = 0}
        last  == CHOOSE i \in zeros : \A j \in zeros : j <= i
    IN  IF zeros = {} THEN <<1>> \o [i \in 1..Len(bits) |-> 0]
        ELSE [i \in 1..Len(bits) |->
                 IF i < last THEN bits[i] ELSE IF i = last THEN 1 ELSE 0]

\* Round to nearest, ties to even: bits is the exact value's expansion from
\* its leading 1 (weight 2^exp), sticky tells whether nonzero bits follow it.
RoundToDouble(bits, exp, sticky) ==
    LET padded == IF Len(bits) > SigBits THEN bits
                  ELSE bits \o [i \in 1..(SigBits + 1 - Len(bits)) |-> 0]
        kept   == SubSeq(padded, 1, SigBits)
        half   == padded[SigBits + 1]
        rest   == sticky \/ \E i \in (SigBits + 2)..Len(padded) : padded[i] = 1
        up     == half = 1 /\ (rest \/ kept[SigBits] = 1)
        inc    == IncBits(kept)
    IN  IF ~up THEN [sig |-> kept, exp |-> exp]
        ELSE IF Len(inc) > SigBits
             THEN [sig |-> SubSeq(inc, 1, SigBits), exp |-> exp + 1]
             ELSE [sig |-> inc, exp |-> exp]

\* Scale a and b by powers of two until b <= a < 2b; exp counts them.
RECURSIVE Normalize(_, _, _)
Normalize(a, b, exp) ==
    IF a < b THEN Normalize(2 * a, b, exp - 1)
    ELSE IF a >= 2 * b THEN Normalize(a, 2 * b, exp + 1)
    ELSE [a |-> a, b |-> b, exp |-> exp]

\* The next n limbs of r / b for 0 <= r < b, and the remainder left.
RECURSIVE FractionLimbs(_, _, _, _)
FractionLimbs(r, b, n, acc) ==
    IF n = 0 THEN [limbs |-> acc, rem |-> r]
    ELSE FractionLimbs((r * LimbBase) % b, b, n - 1,
                       Append(acc, (r * LimbBase) \div b))

\* a / b in double precision, for integers a > 0 and b > 0.
DoubleDiv(a, b) ==
    LET n    == Normalize(a, b, 0)
        f    == FractionLimbs(n.a - n.b, n.b, SigLimbs, <<>>)
        half == IF 2 * f.rem >= n.b THEN 1 ELSE 0
    IN  RoundToDouble(<<1>> \o LimbsToBits(f.limbs) \o <<half>>, n.exp,
                      (2 * f.rem) % n.b # 0)

\* limbs * k from limb i down, carry c coming in from the right: the limbs
\* of the product and the carry out of the top limb.
RECURSIVE TimesLimbs(_, _, _, _, _)
TimesLimbs(limbs, i, k, c, acc) ==
    IF i = 0 THEN [limbs |-> acc, carry |-> c]
    ELSE TimesLimbs(limbs, i - 1, k, (limbs[i] * k + c) \div LimbBase,
                    <<(limbs[i] * k + c) % LimbBase>> \o acc)

\* x * k in double precision, for a double x > 0 and an integer k > 0.
DoubleTimes(x, k) ==
    LET low     == TimesLimbs(BitsToLimbs(Tail(x.sig)), SigLimbs, k, 0, <<>>)
        product == NatBits(k + low.carry) \o LimbsToBits(low.limbs)
    IN  RoundToDouble(product, x.exp + (Len(product) - SigBits), FALSE)

\* Math.round(x) for a double x > 0: floor(x + 0.5).
MathRound(x) ==
    IF x.exp < -1 THEN 0
    ELSE IF x.exp = -1 THEN 1
    ELSE IF x.exp + 1 >= SigBits THEN BitsNat(x.sig)
    ELSE BitsNat(SubSeq(x.sig, 1, x.exp + 1)) + x.sig[x.exp + 2]

\* Math.round((a / b) * scale) for integers a >= 0, b >= 0, scale > 0:
\* 0/0 is NaN, a/0 is Infinity, and otherwise the quotient and the product
\* are each rounded to a double before Math.round.
RoundRatio(a, b, scale) ==
    IF b = 0 THEN (IF a = 0 THEN NaN ELSE Infinity)
    ELSE IF a = 0 THEN Num(0)
    ELSE Num(MathRound(DoubleTimes(DoubleDiv(a, b), scale)))

----------------------------------------------------------------------------
(* The question data *)

Categories == {"JavaScript Basics"}

\* Question records as they come out of JSON.parse: nothing validates them.
\* Q1 and Q2 share their prompt text; Q4 and Q5 carry an answer index that
\* is not an index of their options.
Q1 == [question |-> "P1", options |-> <<"a", "b">>,      answer |-> 0]
Q2 == [question |-> "P1", options |-> <<"c", "d", "e">>, answer |-> 2]
Q3 == [question |-> "P2", options |-> <<"a", "b">>,      answer |-> 1]
Q4 == [question |-> "P3", options |-> <<"a", "b">>,      answer |-> 2]
Q5 == [question |-> "P4", options |-> <<"a", "b">>,      answer |-> -1]

QuestionPool == {Q1, Q2, Q3, Q4, Q5}

SeqsUpTo(S, n) == UNION {[1..k -> S] : k \in 0..n}

QuestionLists == SeqsUpTo(QuestionPool, MaxQuestions)

----------------------------------------------------------------------------
(* shuffle *)

\* The swap if it wrote one of the two elements only.
SwapOverwrite(arr, i, j) == [arr EXCEPT ![i + 1] = arr[j + 1]]

Swap(arr, i, j) == [arr EXCEPT ![i + 1] = arr[j + 1], ![j + 1] = arr[i + 1]]

\* The values Math.floor(Math.random() * (i + 1)) can take for i = n-1 .. 1.
Draws(n) == {d \in [1..(n - 1) -> 0..(n - 1)] : \A i \in 1..(n - 1) : d[i] <= i}

RECURSIVE ShuffleFrom(_, _, _)
ShuffleFrom(result, i, d) ==
    IF i > 0 THEN ShuffleFrom(Swap(result, i, d[i]), i - 1, d) ELSE result

shuffle(array, d) == ShuffleFrom(array, Len(array) - 1, d)

\* shuffle if it swapped within the array it was given.
ShuffleEffectInPlace(array, d) ==
    [array |-> shuffle(array, d), result |-> shuffle(array, d)]

\* What a call of shuffle leaves behind: the array it was given, as its
\* caller sees it afterwards, and the array it returns. The swaps are made
\* in the copy [...array].
ShuffleEffect(array, d) == [array |-> array, result |-> shuffle(array, d)]

----------------------------------------------------------------------------
(* Quiz getters *)

\* Variants: the last question again once past the end; the list read
\* as a ring.
CurrentQuestionClamped ==
    IF questions = <<>> THEN Null
    ELSE IF currentIndex < Len(questions) THEN questions[currentIndex + 1]
    ELSE questions[Len(questions)]

CurrentQuestionWrap ==
    IF questions = <<>> THEN Null
    ELSE questions[(currentIndex % Len(questions)) + 1]

CurrentQuestion ==
    IF currentIndex >= 0 /\ currentIndex < Len(questions)
    THEN questions[currentIndex + 1]
    ELSE Null

TotalQuestions == Len(questions)

\* Variant: strict comparison.
IsCompleteStrict == currentIndex > Len(questions)

\* isComplete if it counted the current question as answered.
IsCompleteEager == currentIndex + 1 >= Len(questions)

IsComplete == currentIndex >= Len(questions)

Progress == RoundRatio(currentIndex, Len(questions), 100)

----------------------------------------------------------------------------
NoRet == [op |-> "none", val |-> FALSE, threw |-> FALSE]

Returned(name, value) == [op |-> name, val |-> value, threw |-> FALSE]
Threw(name)           == [op |-> name, val |-> Undefined, threw |-> TRUE]

\* main is not running.
NoMain ==
    /\ mainPc = "none"
    /\ data = <<>>
    /\ categoryId = 0
    /\ plays = 0
    /\ shown = 0

Init ==
    /\ \E input \in QuestionLists : \E d \in Draws(Len(input)) :
           questions = shuffle(input, d)
    /\ sessions = 1
    /\ outstanding = 0
    /\ callerQuestions = <<>>
    /\ NoMain
    /\ categoryName \in Categories
    /\ currentIndex = 0
    /\ score = 0
    /\ answers = <<>>
    /\ pc = "idle"
    /\ q = Null
    /\ ret = NoRet
    /\ selPc = "none"
    /\ selOptions = <<>>
    /\ selLine = <<>>
    /\ selReprompts = 0
    /\ selResult = Null

----------------------------------------------------------------------------
(* input.js: raw lines, prompt, select *)

\* Raw lines are sequences of one-character strings.
Chars == {"0", "1", "2", "9", "a", "-", " "}

Lines == SeqsUpTo(Chars, MaxLineLen) \cup {<<"a", "b", "c">>}

IsSpace(c) == c = " "
IsDigit(c) == c \in {"0", "1", "2", "3", "4", "5", "6", "7", "8", "9"}

DigitVal(c) ==
    CASE c = "0" -> 0 [] c = "1" -> 1 [] c = "2" -> 2 [] c = "3" -> 3
      [] c = "4" -> 4 [] c = "5" -> 5 [] c = "6" -> 6 [] c = "7" -> 7
      [] c = "8" -> 8 [] c = "9" -> 9

RECURSIVE TrimStart(_)
TrimStart(s) ==
    IF s # <<>> /\ IsSpace(Head(s)) THEN TrimStart(Tail(s)) ELSE s

RECURSIVE TrimEnd(_)
TrimEnd(s) ==
    IF s # <<>> /\ IsSpace(s[Len(s)])
    THEN TrimEnd(SubSeq(s, 1, Len(s) - 1))
    ELSE s

\* String.prototype.trim
Trim(s) == TrimEnd(TrimStart(s))

\* The value of the longest prefix of s made of decimal digits, read after
\* the digits already accumulated in acc; seen tells whether any digit was.
RECURSIVE DigitPrefix(_, _, _)
DigitPrefix(s, acc, seen) ==
    IF s # <<>> /\ IsDigit(Head(s))
    THEN DigitPrefix(Tail(s), 10 * acc + DigitVal(Head(s)), TRUE)
    ELSE [seen |-> seen, value |-> acc]

\* parseInt(s, 10): skip leading white space, take an optional sign, then
\* the longest run of digits; NaN if there is no digit. What follows the
\* digits is ignored.
ParseInt(s) ==
    LET t    == TrimStart(s)
        neg  == t # <<>> /\ Head(t) = "-"
        body == IF t # <<>> /\ Head(t) \in {"-", "+"} THEN Tail(t) ELSE t
        p    == DigitPrefix(body, 0, FALSE)
    IN  IF p.seen THEN Num(IF neg THEN 0 - p.value ELSE p.value) ELSE NaN

\* prompt(): resolves with the trimmed line.
prompt(rawLine) == Trim(rawLine)

\* Variant: upper end included.
InRangeInclusive(index, n) == JsGe(index, 0) /\ JsLt(index, n + 1)

\* The test that ends select's loop (index >= 0 && index < options.length).
InRange(index, n) == JsGe(index, 0) /\ JsLt(index, n)

\* One round of select's loop on one raw line: the object it returns, or
\* accepted = FALSE when it prints the hint and prompts again.
SelectStep(options, rawLine) ==
    LET answer == prompt(rawLine)
        index  == JsMinus(ParseInt(answer), 1)
    IN  IF InRange(index, Len(options))
        THEN [accepted |-> TRUE, index |-> index.v,
              value |-> OptionAt(options, index.v)]
        ELSE [accepted |-> FALSE, index |-> -1, value |-> "undefined"]

----------------------------------------------------------------------------
(* Quiz.askQuestion *)

\* Variant: the 1-based number typed compared with the 0-based answer.
IsCorrectOneBased(index, qq) == index + 1 = qq.answer

\* const isCorrect = index === q.answer
IsCorrectAnswer(index, qq) == index = qq.answer

\* The record pushed on this.answers.
AnswerRecord(qq, index) ==
    [question      |-> qq.question,
     userAnswer    |-> index,
     correctAnswer |-> qq.answer,
     isCorrect     |-> IsCorrectAnswer(index, qq)]

\* Variant: every answer scores.
NextScoreAlways(isCorrect) == score + 1

\* if (isCorrect) this.score++
NextScore(isCorrect) == IF isCorrect THEN score + 1 ELSE score

\* Variant: the cursor skips a question.
NextIndexSkip == currentIndex + 2

\* this.currentIndex++
\* askQuestion if it never moved on to the next question.
NextIndexStuck == currentIndex

NextIndex == currentIndex + 1

\* askQuestion up to its await: return false when there is no current
\* question, else show the question and wait in select().
AskQuestionCall ==
    /\ pc = "idle"
    /\ IF CurrentQuestion = Null
       THEN /\ ret' = Returned("askQuestion", FALSE)
            /\ UNCHANGED <<quizVars, pc, q, selVars, sessions, outstanding>>
       ELSE /\ q' = CurrentQuestion
            /\ pc' = "select"
            /\ ret' = NoRet
            /\ outstanding' = outstanding + 1
            /\ UNCHANGED <<quizVars, selVars, sessions>>

AskQuestion == AskQuestionCall /\ UNCHANGED <<mainVars, callerQuestions>>

\* One raw line arrives while askQuestion waits in select(): a rejected line
\* leaves it waiting; an accepted one resumes askQuestion, which records the
\* answer, scores it, advances and returns isCorrect.
AskQuestionLine(rawLine) ==
    /\ pc = "select"
    /\ LET r == SelectStep(q.options, rawLine) IN
       IF r.accepted
       THEN LET rec == AnswerRecord(q, r.index) IN
            /\ answers' = Append(answers, rec)
            /\ score' = NextScore(rec.isCorrect)
            /\ currentIndex' = NextIndex
            /\ pc' = "idle"
            /\ ret' = Returned("askQuestion", rec.isCorrect)
            /\ q' = Null
            /\ outstanding' = outstanding - 1
            /\ UNCHANGED <<questions, categoryName, selVars, sessions>>
       ELSE UNCHANGED <<quizVars, askVars, selVars, sessions, outstanding>>

AskQuestionSelect ==
    /\ \E rawLine \in Lines : AskQuestionLine(rawLine)
    /\ UNCHANGED <<mainVars, callerQuestions>>

----------------------------------------------------------------------------
(* Quiz.showResults *)

Percentage == RoundRatio(score, TotalQuestions, 100)

Message(percentage) ==
    IF JsStrictEq(percentage, 100) THEN "Perfect score! Amazing!"
    ELSE IF JsGe(percentage, 80) THEN "Great job! Well done!"
    ELSE IF JsGe(percentage, 60) THEN "Good effort! Keep learning!"
    ELSE IF JsGe(percentage, 40) THEN "Not bad! Room for improvement."
    ELSE "Keep practicing! You'll get better!"

\* this.answers.filter(a => !a.isCorrect)
Incorrect == SelectSeq(answers, LAMBDA a : ~a.isCorrect)

\* this.questions.find(q => q.question === text): the first match.
FindQuestion(text) ==
    LET hits == {i \in 1..Len(questions) : questions[i].question = text}
    IN  IF hits = {} THEN Undefined
        ELSE questions[CHOOSE i \in hits : \A j \in hits : i <= j]

\* The three lines printed for one incorrect answer.
ReviewEntry(a) ==
    LET found == FindQuestion(a.question) IN
    [question   |-> a.question,
     yourAnswer |-> OptionAt(found.options, a.userAnswer),
     correct    |-> OptionAt(found.options, a.correctAnswer)]

\* Everything showResults prints.
Results ==
    [category   |-> categoryName,
     score      |-> score,
     total      |-> TotalQuestions,
     percentage |-> Percentage,
     message    |-> Message(Percentage),
     incorrect  |-> [i \in 1..Len(Incorrect) |-> ReviewEntry(Incorrect[i])]]

\* showResults if its filter removed the correct records from the log itself.
ShowResultsCallDraining ==
    /\ pc = "idle"
    /\ ret' = IF \E i \in 1..Len(Incorrect) :
                    FindQuestion(Incorrect[i].question) = Undefined
              THEN Threw("showResults")
              ELSE Returned("showResults", Results)
    /\ answers' = Incorrect
    /\ UNCHANGED <<questions, categoryName, currentIndex, score>>
    /\ UNCHANGED <<pc, q, selVars, sessions, outstanding>>

ShowResultsCall ==
    /\ pc = "idle"
    /\ ret' = IF \E i \in 1..Len(Incorrect) :
                    FindQuestion(Incorrect[i].question) = Undefined
              THEN Threw("showResults")
              ELSE Returned("showResults", Results)
    /\ UNCHANGED <<quizVars, pc, q, selVars, sessions, outstanding>>

ShowResults == ShowResultsCall /\ UNCHANGED <<mainVars, callerQuestions>>

----------------------------------------------------------------------------
(* The getters, called from outside *)

GetCurrentQuestion ==
    /\ pc = "idle"
    /\ ret' = Returned("currentQuestion", CurrentQuestion)
    /\ UNCHANGED <<quizVars, pc, q, selVars, sessions, outstanding>>
    /\ UNCHANGED <<mainVars, callerQuestions>>

GetProgress ==
    /\ pc = "idle"
    /\ ret' = Returned("progress", Progress)
    /\ UNCHANGED <<quizVars, pc, q, selVars, sessions, outstanding>>
    /\ UNCHANGED <<mainVars, callerQuestions>>

GetIsComplete ==
    /\ pc = "idle"
    /\ ret' = Returned("isComplete", IsComplete)
    /\ UNCHANGED <<quizVars, pc, q, selVars, sessions, outstanding>>
    /\ UNCHANGED <<mainVars, callerQuestions>>

Next ==
    \/ AskQuestion
    \/ AskQuestionSelect
    \/ ShowResults
    \/ GetCurrentQuestion
    \/ GetProgress
    \/ GetIsComplete

Spec == Init /\ [][Next]_vars

----------------------------------------------------------------------------
(* select() on its own *)

\* The first n option labels.
OptionLabels(n) == [i \in 1..n |-> <<"a", "b", "c", "d", "e">>[i]]

\* select() has been called with some option list and has listed it; the
\* Quiz object of this run is never touched.
InitSelect ==
    /\ questions = <<>>
    /\ categoryName \in Categories
    /\ currentIndex = 0
    /\ score = 0
    /\ answers = <<>>
    /\ pc = "idle"
    /\ q = Null
    /\ ret = NoRet
    /\ selPc = "prompt"
    /\ \E n \in 0..MaxOptions : selOptions = OptionLabels(n)
    /\ selLine = <<>>
    /\ selReprompts = 0
    /\ selResult = Null
    /\ sessions = 0
    /\ outstanding = 1
    /\ callerQuestions = <<>>
    /\ NoMain

\* One round of the while (true) loop: read a line, return or re-prompt.
SelectRound ==
    /\ selPc = "prompt"
    /\ \E rawLine \in Lines :
         LET r == SelectStep(selOptions, rawLine) IN
         /\ selLine' = rawLine
         /\ IF r.accepted
            THEN /\ selPc' = "returned"
                 /\ selResult' = [index |-> r.index, value |-> r.value]
                 /\ outstanding' = outstanding - 1
                 /\ UNCHANGED selReprompts
            ELSE /\ selReprompts < MaxReprompts
                 /\ selReprompts' = selReprompts + 1
                 /\ UNCHANGED <<selPc, selResult, outstanding>>
    /\ UNCHANGED <<quizVars, askVars, selOptions, sessions>>
    /\ UNCHANGED <<mainVars, callerQuestions>>

NextSelect == SelectRound

SpecSelect == InitSelect /\ [][NextSelect]_vars

----------------------------------------------------------------------------
(* showResults on finished sessions *)

\* A session over total copies of Q3 has been played to its end: the first
\* correct answers were right, the others wrong.
Finished(total, correct) ==
    /\ questions = [i \in 1..total |-> Q3]
    /\ currentIndex = total
    /\ score = correct
    /\ answers = [i \in 1..total |->
                     AnswerRecord(Q3, IF i <= correct THEN Q3.answer ELSE 0)]

InitResults ==
    /\ \E total \in 0..MaxTotal : \E correct \in 0..total :
           Finished(total, correct)
    /\ categoryName \in Categories
    /\ pc = "idle"
    /\ q = Null
    /\ ret = NoRet
    /\ selPc = "none"
    /\ selOptions = <<>>
    /\ selLine = <<>>
    /\ selReprompts = 0
    /\ selResult = Null
    /\ sessions = 1
    /\ outstanding = 0
    /\ callerQuestions = <<>>
    /\ NoMain

NextResults == ShowResults

SpecResults == InitResults /\ [][NextResults]_vars

----------------------------------------------------------------------------
(* The constructor as an operation *)

\* new Quiz(array, name): the shuffled copy becomes the question list and
\* the counters start at zero. No method of the new object has been called.
ConstructQuiz(array, name) ==
    \E d \in Draws(Len(array)) :
        LET e == ShuffleEffect(array, d) IN
        /\ questions' = e.result
        /\ callerQuestions' = e.array
        /\ categoryName' = name
        /\ currentIndex' = 0
        /\ score' = 0
        /\ answers' = <<>>
        /\ pc' = "idle"
        /\ q' = Null
        /\ ret' = NoRet
        /\ sessions' = sessions + 1

\* No Quiz object exists yet.
NoQuiz ==
    /\ questions = <<>>
    /\ categoryName = ""
    /\ currentIndex = 0
    /\ score = 0
    /\ answers = <<>>
    /\ pc = "idle"
    /\ q = Null
    /\ ret = NoRet
    /\ sessions = 0

\* A caller holding any list of questions, before it constructs a Quiz.
InitConstruct ==
    /\ callerQuestions \in QuestionLists
    /\ NoQuiz
    /\ selPc = "none"
    /\ selOptions = <<>>
    /\ selLine = <<>>
    /\ selReprompts = 0
    /\ selResult = Null
    /\ outstanding = 0
    /\ NoMain

Construct ==
    /\ sessions < MaxSessions
    /\ \E name \in Categories : ConstructQuiz(callerQuestions, name)
    /\ UNCHANGED <<selVars, outstanding, mainVars>>

NextConstruct ==
    \/ Construct
    \/ (sessions > 0 /\ GetCurrentQuestion)
    \/ (sessions > 0 /\ GetIsComplete)
    \/ (sessions > 0 /\ GetProgress)

SpecConstruct == InitConstruct /\ [][NextConstruct]_vars

----------------------------------------------------------------------------
(* index.js: main *)

\* The loaded bank: the categories in Object.keys order.
CatFive  == [name |-> "JavaScript Basics", questions |-> <<Q1, Q3, Q1, Q3, Q1>>]
CatThree == [name |-> "Node.js",           questions |-> <<Q1, Q2, Q3>>]
CatNone  == [name |-> "Empty",             questions |-> <<>>]

DataBanks == {<<CatFive, CatThree, CatNone>>, <<>>}

\* Lines typed at the prompts of main.
MainLines == Lines \cup {<<"3">>}

ConfirmLines ==
    {<<>>, <<"y">>, <<"Y">>, <<"n">>, <<"N", "o">>, <<" ", "y">>,
     <<"a", "y">>, <<"y", "e", "s">>}

ToLowerCase(c) == IF c = "Y" THEN "y" ELSE IF c = "N" THEN "n" ELSE c

\* confirm: the trimmed answer, in lower case, starts with "y".
Confirm(rawLine) ==
    LET answer == prompt(rawLine)
        lower  == [i \in 1..Len(answer) |-> ToLowerCase(answer[i])]
    IN  Len(lower) >= 1 /\ lower[1] = "y"

\* The labels of the count prompt, as strings of characters.
AllQuestions   == <<"A", "l", "l", " ", "q", "u", "e", "s", "t", "i", "o", "n", "s">>
ThreeQuestions == <<"3", " ", "q", "u", "e", "s", "t", "i", "o", "n", "s">>
FiveQuestions  == <<"5", " ", "q", "u", "e", "s", "t", "i", "o", "n", "s">>

Includes(str, c) == \E i \in 1..Len(str) : str[i] = c

CategoryOptions == [i \in 1..Len(data) |-> data[i].name]

CountOptions(maxQuestions) ==
    <<AllQuestions>>
       \o (IF maxQuestions >= 3 THEN <<ThreeQuestions>> ELSE <<>>)
       \o (IF maxQuestions >= 5 THEN <<FiveQuestions>> ELSE <<>>)

QuestionCount(countChoice, maxQuestions) ==
    IF Includes(countChoice, "5") THEN 5
    ELSE IF Includes(countChoice, "3") THEN 3
    ELSE maxQuestions

\* What array.slice(0, n) leaves behind, for n >= 0: the array itself, as
\* its owner sees it afterwards, and the copy of its first n elements.
SliceEffect(array, n) ==
    [array  |-> array,
     result |-> SubSeq(array, 1, IF n < Len(array) THEN n ELSE Len(array))]

\* main has loaded the bank and stands at the head of while (playing).
InitMain ==
    /\ data \in DataBanks
    /\ mainPc = "playing"
    /\ categoryId = 0
    /\ plays = 0
    /\ shown = 0
    /\ callerQuestions = <<>>
    /\ NoQuiz
    /\ selPc = "none"
    /\ selOptions = <<>>
    /\ selLine = <<>>
    /\ selReprompts = 0
    /\ selResult = Null
    /\ outstanding = 0

\* A playthrough begins: banner, then the category prompt. The Quiz of the
\* playthrough before is out of scope. plays counts up to MaxPlaythroughs.
MainBegin ==
    /\ mainPc = "playing"
    /\ mainPc' = "category"
    /\ plays' = IF plays < MaxPlaythroughs THEN plays + 1 ELSE plays
    /\ shown' = 0
    /\ categoryId' = 0
    /\ callerQuestions' = <<>>
    /\ questions' = <<>>
    /\ categoryName' = ""
    /\ currentIndex' = 0
    /\ score' = 0
    /\ answers' = <<>>
    /\ pc' = "idle"
    /\ q' = Null
    /\ ret' = NoRet
    /\ sessions' = 0
    /\ outstanding' = outstanding + 1
    /\ UNCHANGED <<data, selVars>>

\* A line at the category prompt: on a valid choice the count prompt follows.
MainSelectCategory ==
    /\ mainPc = "category"
    /\ \E rawLine \in MainLines :
         LET r == SelectStep(CategoryOptions, rawLine) IN
         IF r.accepted
         THEN /\ categoryId' = r.index + 1
              /\ mainPc' = "count"
              /\ UNCHANGED <<data, plays, shown, callerQuestions, quizVars,
                             askVars, selVars, sessions, outstanding>>
         ELSE UNCHANGED vars

\* A line at the count prompt: on a valid choice the questions are sliced
\* off the category, the Quiz is constructed and pressEnter is called.
MainSelectCount ==
    /\ mainPc = "count"
    /\ \E rawLine \in MainLines :
         LET category      == data[categoryId]
             maxQuestions  == Len(category.questions)
             r             == SelectStep(CountOptions(maxQuestions), rawLine)
             questionCount == QuestionCount(r.value, maxQuestions)
             sliced        == SliceEffect(category.questions, questionCount)
         IN  IF r.accepted
             THEN /\ data' = [data EXCEPT ![categoryId].questions = sliced.array]
                  /\ ConstructQuiz(sliced.result, category.name)
                  /\ mainPc' = "start"
                  /\ UNCHANGED <<categoryId, plays, shown, selVars, outstanding>>
             ELSE UNCHANGED vars

\* Enter pressed after "Starting quiz...", whatever the line.
MainPressEnterStart ==
    /\ mainPc = "start"
    /\ mainPc' = "loop"
    /\ outstanding' = outstanding - 1
    /\ UNCHANGED <<data, categoryId, plays, shown, callerQuestions, quizVars,
                   askVars, selVars, sessions>>

\* The head of while (!quiz.isComplete): askQuestion is called.
MainLoop ==
    /\ mainPc = "loop"
    /\ ~IsComplete
    /\ AskQuestionCall
    /\ mainPc' = IF CurrentQuestion = Null THEN "answered" ELSE "question"
    /\ UNCHANGED <<data, categoryId, plays, shown, callerQuestions>>

\* A line at the question prompt: on a valid choice askQuestion returns.
MainAnswer ==
    /\ mainPc = "question"
    /\ \E rawLine \in MainLines :
         /\ AskQuestionLine(rawLine)
         /\ mainPc' = IF SelectStep(q.options, rawLine).accepted
                      THEN "answered" ELSE mainPc
    /\ UNCHANGED <<data, categoryId, plays, shown, callerQuestions>>

\* main if it acknowledged the last answer as well.
MainAfterAnswerAlways ==
    /\ mainPc = "answered"
    /\ mainPc' = "ack"
    /\ outstanding' = outstanding + 1
    /\ UNCHANGED <<data, categoryId, plays, shown, callerQuestions, quizVars,
                   askVars, selVars, sessions>>

\* main if it did not wait for Enter before the next question.
MainAfterAnswerNoAwait ==
    /\ mainPc = "answered"
    /\ mainPc' = "loop"
    /\ outstanding' = IF IsComplete THEN outstanding ELSE outstanding + 1
    /\ UNCHANGED <<data, categoryId, plays, shown, callerQuestions, quizVars,
                   askVars, selVars, sessions>>

\* askQuestion has returned: pressEnter unless the quiz is complete.
MainAfterAnswer ==
    /\ mainPc = "answered"
    /\ IF ~IsComplete
       THEN /\ mainPc' = "ack"
            /\ outstanding' = outstanding + 1
       ELSE /\ mainPc' = "loop"
            /\ UNCHANGED outstanding
    /\ UNCHANGED <<data, categoryId, plays, shown, callerQuestions, quizVars,
                   askVars, selVars, sessions>>

\* Enter pressed between two questions, whatever the line.
MainPressEnterNext ==
    /\ mainPc = "ack"
    /\ mainPc' = "loop"
    /\ outstanding' = outstanding - 1
    /\ UNCHANGED <<data, categoryId, plays, shown, callerQuestions, quizVars,
                   askVars, selVars, sessions>>

\* The loop is left: showResults. An exception ends main in the catch block.
MainShowResults ==
    /\ mainPc = "loop"
    /\ IsComplete
    /\ ShowResultsCall
    /\ shown' = shown + 1
    /\ mainPc' = IF ret'.threw THEN "failed" ELSE "results"
    /\ UNCHANGED <<data, categoryId, plays, callerQuestions>>

\* confirm is called after the results.
MainAskAgain ==
    /\ mainPc = "results"
    /\ mainPc' = "again"
    /\ outstanding' = outstanding + 1
    /\ UNCHANGED <<data, categoryId, plays, shown, callerQuestions, quizVars,
                   askVars, selVars, sessions>>

\* A line at "Would you like to play again?".
MainConfirm(rawLine) ==
    /\ mainPc = "again"
    /\ mainPc' = IF Confirm(rawLine) THEN "playing" ELSE "exit"
    /\ outstanding' = outstanding - 1
    /\ UNCHANGED <<data, categoryId, plays, shown, callerQuestions, quizVars,
                   askVars, selVars, sessions>>

MainPlayAgain ==
    /\ mainPc = "again"
    /\ \E rawLine \in ConfirmLines : MainConfirm(rawLine)

NextMain ==
    \/ MainBegin
    \/ MainSelectCategory
    \/ MainSelectCount
    \/ MainPressEnterStart
    \/ MainLoop
    \/ MainAnswer
    \/ MainAfterAnswer
    \/ MainPressEnterNext
    \/ MainShowResults
    \/ MainAskAgain
    \/ MainPlayAgain

SpecMain == InitMain /\ [][NextMain]_vars

\* The positions main passes through before it ends.
MainPcs ==
    {"playing", "category", "count", "start", "loop", "question", "answered",
     "ack", "results", "again"}

\* main moves on from position p: MainBegin at "playing", a valid choice in
\* MainSelectCategory and MainSelectCount, MainPressEnterStart at "start",
\* MainLoop or MainShowResults at "loop", a valid choice in MainAnswer,
\* MainAfterAnswer, MainPressEnterNext at "ack", MainAskAgain at "results"
\* and MainPlayAgain at "again".
MainLeaves(p) == mainPc = p /\ mainPc' \in (MainPcs \cup {"exit", "failed"}) \ {p}

\* The user answers no at the play again prompt.
MainDecline == mainPc = "again" /\ mainPc' = "exit"

\* The steps main takes by itself are taken; the user answers every prompt
\* and sooner or later makes a valid choice at every select prompt that
\* offers one; and the user sooner or later declines to play again.
FairMain ==
    /\ \A p \in MainPcs \ {"category", "again"} : WF_mainPc(MainLeaves(p))
    /\ WF_mainPc(Len(data) > 0 /\ MainLeaves("category"))
    /\ SF_mainPc(MainDecline)

SpecMainFair == SpecMain /\ FairMain

----------------------------------------------------------------------------
(* Properties of the session (Spec) *)

\* The positions of the incorrect records in the answer log, in order.
WrongPositions ==
    SelectSeq([i \in 1..Len(answers) |-> i], LAMBDA i : ~answers[i].isCorrect)

\* C1: in every reachable state score <= currentIndex <= number of
\* questions, and the answer log has exactly currentIndex records.
SessionInvariant ==
    /\ score <= currentIndex
    /\ currentIndex <= Len(questions)
    /\ Len(answers) = currentIndex

\* C1 witness: two of three questions answered, one of them correctly.
SessionInvariantWitness ==
    /\ Len(questions) = 3
    /\ currentIndex = 2
    /\ score = 1
    /\ pc = "idle"

\* C2: isComplete is false while fewer than total questions have been
\* answered and true once exactly total have been; it holds iff
\* position = total, and then the log has total records.
CompleteIffAllAnswered ==
    /\ IsComplete <=> (currentIndex = Len(questions))
    /\ IsComplete <=> (Len(answers) = Len(questions))
    /\ Len(answers) < Len(questions) => ~IsComplete
    /\ ret.op = "isComplete" => (ret.val <=> (Len(answers) = Len(questions)))

\* C2 witness: isComplete read as true right after the third of three answers.
CompleteIffAllAnsweredWitness ==
    /\ Len(questions) = 3
    /\ Len(answers) = 3
    /\ ret = Returned("isComplete", TRUE)

\* C3: score is the number of records of the log with isCorrect true, and
\* never exceeds the number of questions.
ScoreCountsCorrect ==
    /\ score = Cardinality({i \in 1..Len(answers) : answers[i].isCorrect})
    /\ score <= Len(questions)

\* C3 witness: three questions answered correct, incorrect, correct give
\* score 2, a log of length 3 and one incorrect record, the second.
ScoreCountsCorrectWitness ==
    /\ Len(questions) = 3
    /\ Len(answers) = 3
    /\ answers[1].isCorrect /\ ~answers[2].isCorrect /\ answers[3].isCorrect
    /\ score = 2
    /\ WrongPositions = <<2>>

\* C4: a step that completes askQuestion appends exactly one record, whose
\* isCorrect says whether the selected index is the current question's
\* answer, adds 1 to the position, and adds 1 to the score iff the answer is
\* correct; no other step changes position, score or log, so none of them
\* ever decreases and no record is removed or altered.
AnswerStepEffects ==
    [][/\ (pc = "select" /\ pc' = "idle") => Len(answers') = Len(answers) + 1
       /\ (answers' # answers \/ currentIndex' # currentIndex \/ score' # score)
            => /\ pc = "select" /\ pc' = "idle"
               /\ currentIndex < Len(questions)
               /\ Len(answers') = Len(answers) + 1
               /\ SubSeq(answers', 1, Len(answers)) = answers
               /\ LET rec == answers'[Len(answers')]
                      cur == questions[currentIndex + 1]
                  IN  /\ rec.userAnswer \in 0..(Len(cur.options) - 1)
                      /\ rec.isCorrect <=> (rec.userAnswer = cur.answer)
                      /\ score' = score + (IF rec.isCorrect THEN 1 ELSE 0)
               /\ currentIndex' = currentIndex + 1
               /\ questions' = questions
      ]_vars

\* C4 witness: a first answer that was wrong, then a second that was right.
AnswerStepEffectsWitness ==
    /\ Len(answers) = 2
    /\ ~answers[1].isCorrect /\ answers[2].isCorrect
    /\ score = 1
    /\ currentIndex = 2
    /\ ret = Returned("askQuestion", TRUE)

\* C5: a session over an empty question list is complete at once and its
\* results report score 0 of 0, percentage 0 and the lowest tier.
EmptyQuizReportsZero ==
    Len(questions) = 0 =>
        /\ IsComplete
        /\ ret.op = "showResults" =>
             /\ ~ret.threw
             /\ ret.val.score = 0
             /\ ret.val.total = 0
             /\ ret.val.percentage = Num(0)
             /\ ret.val.message = "Keep practicing! You'll get better!"

\* A step in which askQuestion is called on a complete session.
AskOnComplete ==
    /\ pc = "idle"
    /\ currentIndex = Len(questions)
    /\ pc' = "select" \/ (ret'.op = "askQuestion" /\ ret' # ret)

\* C6 as stated: askQuestion called on a complete session raises an error.
CompleteAskFailsLoudly == [][AskOnComplete => ret'.threw]_vars

\* C6 amended: askQuestion called on a complete session returns false
\* without raising, prompting or changing the session.
CompleteAskReturnsFalse ==
    [][AskOnComplete =>
          /\ ret' = Returned("askQuestion", FALSE)
          /\ pc' = "idle"
          /\ UNCHANGED <<questions, categoryName, currentIndex, score, answers>>
      ]_vars

\* C6 witness: both questions answered correctly, then askQuestion called
\* again: the false it returned is not the verdict on an answer.
CompleteAskReturnsFalseWitness ==
    /\ Len(questions) = 2
    /\ currentIndex = 2
    /\ score = 2
    /\ ret = Returned("askQuestion", FALSE)

\* C7: once position = total no operation changes position, score, the
\* log or the questions, the session stays complete, and currentQuestion
\* returns null.
CompleteIsTerminal ==
    [][currentIndex = Len(questions) =>
          /\ UNCHANGED <<questions, currentIndex, score, answers>>
          /\ pc' = "idle"
          /\ IsComplete'
          /\ ret'.op = "currentQuestion" => ret'.val = Null
      ]_vars

\* C7 witness: currentQuestion read as null on a complete one-question session.
CompleteIsTerminalWitness ==
    /\ Len(questions) = 1
    /\ currentIndex = 1
    /\ ret = Returned("currentQuestion", Null)

\* C8: no session ever asks a question whose answer index is not an index
\* of its options (such a question is rejected before any session runs).
NoInvalidQuestionAsked ==
    pc = "select" => (q.answer >= 0 /\ q.answer < Len(q.options))

\* C10: the review lists every incorrect record, in answer order, with the
\* options of the question it was answered for.
ReviewPairsOriginatingQuestion ==
    (ret.op = "showResults") =>
        /\ ~ret.threw
        /\ Len(ret.val.incorrect) = Len(WrongPositions)
        /\ \A k \in 1..Len(WrongPositions) :
             LET i     == WrongPositions[k]
                 entry == ret.val.incorrect[k]
             IN  /\ entry.question = answers[i].question
                 /\ entry.yourAnswer =
                        OptionAt(questions[i].options, answers[i].userAnswer)
                 /\ entry.correct =
                        OptionAt(questions[i].options, answers[i].correctAnswer)

\* C14: showResults changes none of position, score, answers log, question
\* order or category; the summary it produced is the summary of the state
\* the session is in, so a second call in that state produces it again.
ShowResultsPure ==
    /\ [][ret'.op = "showResults" =>
            /\ UNCHANGED <<questions, categoryName, currentIndex, score, answers>>
            /\ UNCHANGED <<pc, q>>
            /\ ret.op = "showResults" => ret' = ret
         ]_vars
    /\ []((ret.op = "showResults" /\ ~ret.threw) => ret.val = Results)

\* C14 witness: results shown in the middle of a session, after one wrong
\* answer and one right answer out of three questions.
ShowResultsPureWitness ==
    /\ Len(questions) = 3
    /\ currentIndex = 2
    /\ score = 1
    /\ ret.op = "showResults"
    /\ ~ret.threw
    /\ Len(ret.val.incorrect) = 1

LogFollowsShuffledOrder ==
    /\ Len(answers) = currentIndex
    /\ currentIndex <= Len(questions)
    /\ \A i \in 1..Len(answers) :
         /\ answers[i].question = questions[i].question
         /\ answers[i].correctAnswer = questions[i].answer
    /\ IsComplete => Len(answers) = Len(questions)

\* C20 witness: a complete session over three questions with three
\* different prompts, every one answered.
LogFollowsShuffledOrderWitness ==
    /\ Len(questions) = 3
    /\ IsComplete
    /\ Len(answers) = 3
    /\ \A i, j \in 1..3 : i # j => answers[i].question # answers[j].question

----------------------------------------------------------------------------
(* Properties of select (SpecSelect) *)

\* C9: every round of select on a line that does not parse to an integer in
\* 1..n prompts again, once; the first line that does makes it return that
\* integer minus 1; the index returned is always in 0..n-1. With n = 3,
\* "abc" and "9" prompt again and "2" returns index 1.
SelectReturnsFirstValid ==
    /\ [](selPc = "returned" =>
            /\ selResult.index \in 0..(Len(selOptions) - 1)
            /\ selResult.value = selOptions[selResult.index + 1])
    /\ [][LET n     == Len(selOptions)
              v     == ParseInt(selLine')
              valid == v.kind = "int" /\ v.v >= 1 /\ v.v <= n
              again == /\ selPc' = "prompt"
                       /\ selReprompts' = selReprompts + 1
                       /\ selResult' = selResult
          IN  /\ selPc = "prompt"
              /\ selOptions' = selOptions
              /\ IF valid
                 THEN /\ selPc' = "returned"
                      /\ selResult'.index = v.v - 1
                      /\ selReprompts' = selReprompts
                 ELSE again
              /\ selLine' \in {<<"a", "b", "c">>, <<"9">>} => again
              /\ (selLine' = <<"2">> /\ n >= 2) => selResult'.index = 1
         ]_vars

\* C9 witness: three options, two rejected lines, then "2" returns index 1.
SelectReturnsFirstValidWitness ==
    /\ Len(selOptions) = 3
    /\ selReprompts = 2
    /\ selLine = <<"2">>
    /\ selPc = "returned"
    /\ selResult = [index |-> 1, value |-> "b"]

----------------------------------------------------------------------------
(* Properties of the results (SpecResults) *)

\* 100 * a / b rounded to the nearest integer, halves up, for b > 0.
RoundedPercent(a, b) == (200 * a + b) \div (2 * b)

\* The message showResults prints for each tier.
TierMessage(percent) ==
    IF percent = 100 THEN "Perfect score! Amazing!"
    ELSE IF percent >= 80 THEN "Great job! Well done!"
    ELSE IF percent >= 60 THEN "Good effort! Keep learning!"
    ELSE IF percent >= 40 THEN "Not bad! Room for improvement."
    ELSE "Keep practicing! You'll get better!"

\* C11: for total > 0 the percentage shown is round(100 * score / total)
\* and the tier is perfect at 100, great from 80, good from 60, fair from
\* 40 and needs practice below.
PercentageAndTierExact ==
    (ret.op = "showResults" /\ Len(questions) > 0) =>
        /\ ~ret.threw
        /\ ret.val.score = score
        /\ ret.val.total = Len(questions)
        /\ ret.val.percentage = Num(RoundedPercent(score, Len(questions)))
        /\ ret.val.message = TierMessage(RoundedPercent(score, Len(questions)))

----------------------------------------------------------------------------
(* Properties of the constructor (SpecConstruct) *)

\* The number of positions of seq that hold x.
Count(seq, x) == Cardinality({i \in 1..Len(seq) : seq[i] = x})

\* Two sequences of the same length holding the same elements as often.
SameElements(a, b) ==
    /\ Len(a) = Len(b)
    /\ \A x \in QuestionPool : Count(a, x) = Count(b, x)

\* C12: the question list of a newly constructed session has the length of
\* the list it was constructed from and holds the same questions as often,
\* whatever the list (empty and single-element ones too) and the draws.
ShuffleIsPermutation ==
    /\ [][sessions' = sessions + 1 => SameElements(questions', callerQuestions)
         ]_vars
    /\ [](sessions > 0 => SameElements(questions, callerQuestions))

\* C12 witness: three different questions, the last one shuffled to the front.
ShuffleIsPermutationWitness ==
    /\ sessions = 1
    /\ callerQuestions = <<Q1, Q2, Q3>>
    /\ questions[1] = Q3
    /\ questions # callerQuestions

\* C17: a session newly constructed from a non-empty list is at position 0
\* with score 0 and an empty log, is not complete, and its current question
\* is the first of the shuffled order; the getters report so.
FreshSession ==
    /\ [][(sessions' = sessions + 1 /\ Len(callerQuestions) > 0) =>
            /\ currentIndex' = 0
            /\ score' = 0
            /\ answers' = <<>>
            /\ currentIndex' < Len(questions')
            /\ ~IsComplete'
            /\ CurrentQuestion' = questions'[1]
         ]_vars
    /\ []((sessions > 0 /\ Len(questions) > 0) =>
            /\ ret.op = "isComplete" => ret.val = FALSE
            /\ ret.op = "currentQuestion" => ret.val = questions[1])

\* C17 witness: isComplete read as false on a new single-question session.
FreshSessionWitness ==
    /\ sessions = 1
    /\ Len(questions) = 1
    /\ currentIndex = 0
    /\ ret = Returned("isComplete", FALSE)

----------------------------------------------------------------------------
(* Properties of main (SpecMain, SpecMainFair) *)

\* The positions of main at which a prompt waits for a line.
PromptPcs == {"category", "count", "start", "question", "ack", "again"}

\* C13: no step of the application changes the loaded bank, and the array
\* handed to the constructor is, after the construction as before it, the
\* leading questions of the selected category in their loaded order.
BankNeverAltered ==
    /\ [][data' = data]_vars
    /\ [][sessions' = sessions + 1 =>
            callerQuestions' =
                SubSeq(data[categoryId].questions, 1, Len(questions'))
         ]_vars
    /\ [](sessions > 0 =>
            callerQuestions =
                SubSeq(data[categoryId].questions, 1, Len(questions)))

\* C13 witness: in the second playthrough a session over the three
\* different questions of the second category, shuffled into another order.
BankNeverAlteredWitness ==
    /\ plays = 2
    /\ sessions = 1
    /\ categoryId = 2
    /\ data[2] = CatThree
    /\ callerQuestions = <<Q1, Q2, Q3>>
    /\ questions = <<Q3, Q1, Q2>>

\* C15: at most one prompt is outstanding, and one is exactly when main
\* waits at a prompt; at most one session exists per playthrough; an
\* askQuestion is in flight only while main awaits it; and every position
\* up to the current one has been answered once.
StrictlySequential ==
    /\ outstanding \in {0, 1}
    /\ (outstanding = 1) <=> (mainPc \in PromptPcs)
    /\ sessions \in {0, 1}
    /\ (pc = "select") <=> (mainPc = "question")
    /\ Len(answers) = currentIndex
    /\ currentIndex <= Len(questions)

\* C15 witness: the third question of the second playthrough is being asked.
StrictlySequentialWitness ==
    /\ plays = 2
    /\ mainPc = "question"
    /\ pc = "select"
    /\ currentIndex = 2
    /\ outstanding = 1

\* The order in which main moves from one position to the next.
MainOrder ==
    {<<"playing", "category">>, <<"category", "count">>, <<"count", "start">>,
     <<"start", "loop">>, <<"loop", "question">>, <<"question", "answered">>,
     <<"answered", "ack">>, <<"ack", "loop">>, <<"answered", "loop">>,
     <<"loop", "results">>, <<"results", "again">>, <<"again", "playing">>,
     <<"again", "exit">>}

\* C18: a playthrough goes through category selection, count selection,
\* construction, acknowledgement and then the questions; showResults is
\* called only on a complete session and once per playthrough; play again
\* is asked only after the results; and an acknowledgement follows every
\* answered question but the last.
EventOrder ==
    /\ [][mainPc' # mainPc => <<mainPc, mainPc'>> \in MainOrder]_vars
    /\ [][sessions' = sessions + 1 => (mainPc = "count" /\ mainPc' = "start")
         ]_vars
    /\ [][shown' = shown + 1 => (IsComplete /\ shown = 0 /\ mainPc = "loop")
         ]_vars
    /\ [][mainPc = "answered" =>
            (mainPc' = "ack" <=> currentIndex < Len(questions))]_vars
    /\ [](mainPc \in {"category", "count"} => (sessions = 0 /\ shown = 0))
    /\ [](mainPc \in {"start", "loop", "question", "answered", "ack"} =>
            (sessions = 1 /\ shown = 0))
    /\ [](mainPc \in {"results", "again", "exit"} =>
            (sessions = 1 /\ shown = 1 /\ IsComplete
               /\ ret.op = "showResults"))

\* C18 witness: play again is asked after the results of a playthrough of
\* three questions, the last of which was answered without acknowledgement.
EventOrderWitness ==
    /\ mainPc = "again"
    /\ shown = 1
    /\ Len(questions) = 3
    /\ currentIndex = 3
    /\ outstanding = 1

\* C19: once a category can be chosen the playthrough reaches the play
\* again prompt with its session complete, its results shown once and as
\* many question prompts answered as it has questions; results are never
\* shown otherwise; and main comes to its end.
PlaythroughsFinish ==
    /\ (mainPc = "category" /\ Len(data) > 0) ~>
           (mainPc = "again" /\ IsComplete /\ shown = 1
              /\ Len(answers) = Len(questions))
    /\ [](shown = 1 => (IsComplete /\ Len(answers) = Len(questions)))
    /\ (Len(data) > 0) ~> (mainPc = "exit")

\* C19 witness: main has ended after two playthroughs, the second of five
\* questions, all answered.
PlaythroughsFinishWitness ==
    /\ mainPc = "exit"
    /\ plays = 2
    /\ shown = 1
    /\ Len(questions) = 5
    /\ Len(answers) = 5
    /\ outstanding = 0
====
